---------------------------- MODULE Spec2Model ----------------------------
(***************************************************************************)
(* The sparsity workflow of the notebooks: a model of linear layers, a     *)
(* sparsifier (ClosestToMeanSparsifier) that is prepared with a config,    *)
(* stepped and squashed, and a scheduler (LambdaSL with stepping_lambda,   *)
(* or OnOffSchedulerSL) that is stepped after the sparsifier in a loop.    *)
(* A second specification, QuantSpec, follows the layer objects of the     *)
(* models through the quantization flows: deep copies, prepare_qat,        *)
(* prepare and convert.                                                    *)
(*                                                                         *)
(* Sparsity levels are exact fractions with denominator LevelDen; the      *)
(* levels used are dyadic, so the notebook's float arithmetic is exact on  *)
(* them.  A weight tensor is its flattened vector of integers; trained     *)
(* weights are drawn from a continuous distribution and are never 0.       *)
(***************************************************************************)
EXTENDS Integers, Sequences, FiniteSets

\* Number of weight elements of the smaller layer (the other has one more).
NumElems == 3
\* Number of iterations of the training loop (for idx in range(...)).
MaxEpoch == 6

\* Denominator of a sparsity level: quarters (targets) of quarters (steps).
LambdaDen == 2 * 2
LevelDen == LambdaDen * LambdaDen

Layers == {"fc1", "fc2"}
LayerSeq == <<"fc1", "fc2">>
Numel(l) == IF l = "fc1" THEN NumElems ELSE NumElems + 1

NoMask == <<>>

\* sparsity_level given to the sparsifier's constructor, and in config dicts
DefaultLevels == {8, 12}
DictLevels == {4, 16}
EpochPointChoices == {<<1, 2, 4>>, <<0, 2, 3>>, <<2, 3, 5>>}

VARIABLES
    phase,          \* "created" | "prepared" | "squashed"
    original,       \* layer -> weight parameter (parametrizations.weight.original)
    mask,           \* layer -> parametrizations.weight[0].mask, or NoMask
    defaults,       \* sparsifier.defaults['sparsity_level']
    config,         \* sparsifier.config
    module_groups,  \* sparsifier.module_groups
    sched,          \* "none" | "lambda" | "onoff"
    epoch_points,   \* OnOffSchedulerSL.epoch_points
    base_sl,        \* scheduler.base_sl
    last_epoch,     \* scheduler.last_epoch
    sched_steps,    \* scheduler._step_count
    turn,           \* next call of the loop body: "sparsifier" | "scheduler"
    nsteps,         \* number of sparsifier.step() calls so far
    applied,        \* layer -> level last given to update_mask, or -1
    fwd_steps,      \* nsteps when the model last ran forward, or -1
    seen,           \* layer -> zeros in the weight the last forward used, or -1
    flow,           \* "none" | "ptq" | "qat": the quantization notebook run
    heap,           \* object id -> layer object (kind, weight, mask, observer)
    nets,           \* model name -> ids of its linear layers, or NoModel
    held,           \* the modules of the sparsifier's groups (slot, object id)
    qconfig,        \* names of the models whose qconfig is set
    calls           \* the calls made so far (op, the model it was given)

quantvars == <<flow, heap, nets, held, qconfig, calls>>

vars == <<phase, original, mask, defaults, config, module_groups, sched,
          epoch_points, base_sl, last_epoch, sched_steps, turn, nsteps, applied,
          fwd_steps, seen, flow, heap, nets, held, qconfig, calls>>

-----------------------------------------------------------------------------
(* Tensors *)

Abs(x) == IF x < 0 THEN 0 - x ELSE x

RECURSIVE SumTo(_, _)
SumTo(w, n) == IF n = 0 THEN 0 ELSE w[n] + SumTo(w, n - 1)

Sum(w) == SumTo(w, Len(w))

Ones(n) == [i \in 1..n |-> 1]

ZeroCount(t) == Cardinality({i \in DOMAIN t : t[i] = 0})

\* layer.weight: original * mask while parametrized, the parameter otherwise
Weight(l) ==
    IF mask[l] = NoMask THEN original[l]
    ELSE [i \in 1..Numel(l) |-> original[l][i] * mask[l][i]]

\* Weights of a freshly made or trained model: nonzero, with and without ties
\* in the distance to the mean.
WeightPattern(k, l) ==
    [i \in 1..Numel(l) |->
        CASE k = 1 -> i * i
          [] k = 2 -> IF i % 2 = 1 THEN 2 ELSE 0 - 2
          [] OTHER -> 5 - 2 * i]

WeightChoices == {[l \in Layers |-> WeightPattern(k, l)] : k \in 1..3}

-----------------------------------------------------------------------------
(* ClosestToMeanSparsifier.update_mask *)

\* int(round(x)) for x = num/den >= 0: Python rounds halves to even
RoundHalfEven(num, den) ==
    LET q == num \div den
        r == num % den
    IN  IF 2 * r < den THEN q
        ELSE IF 2 * r > den THEN q + 1
        ELSE IF q % 2 = 0 THEN q ELSE q + 1

\* (weight_flat - weight_mean).abs(), scaled by the number of elements
DistanceToMean(w) ==
    LET s == Sum(w)
    IN  [i \in 1..Len(w) |-> Abs(Len(w) * w[i] - s)]

\* The ascending orders of the indices in S by d: the smallest first, any
\* order among equals
RECURSIVE Ascending(_, _)
Ascending(S, d) ==
    IF S = {} THEN {<<>>}
    ELSE UNION {{<<x>> \o p : p \in Ascending(S \ {x}, d)} :
                  x \in {y \in S : \A z \in S : d[y] <= d[z]}}

\* torch.sort(weight_distance_to_mean): the index orders that sort ascending
\* (the order of equal elements is not fixed)
SortedIdx(w) == Ascending(1..Len(w), DistanceToMean(w))

\* int(sparsity_level * n) without the round
ThresholdIdxFloor(sparsity_level, n) == (sparsity_level * n) \div LevelDen

\* threshold_idx = int(round(sparsity_level * len(sorted_idx)))
ThresholdIdx(sparsity_level, n) == RoundHalfEven(sparsity_level * n, LevelDen)

\* ones_like(mask) with new_mask[sorted_idx[:threshold_idx]] = 0
NewMask(p, threshold_idx) ==
    [i \in 1..Len(p) |-> IF \E k \in 1..threshold_idx : p[k] = i THEN 0 ELSE 1]

\* the masks update_mask can assign for a weight and a level
UpdateMask(w, sparsity_level) ==
    {NewMask(p, ThresholdIdx(sparsity_level, Len(w))) : p \in SortedIdx(w)}

-----------------------------------------------------------------------------
(* Sparsifier *)

GroupIdx(l) == {g \in DOMAIN module_groups : module_groups[g].module = l}
HasGroup(l) == GroupIdx(l) # {}
GroupOf(l) == module_groups[CHOOSE g \in GroupIdx(l) : TRUE]
HasMask(l) == mask[l] # NoMask

\* sparse_block_shape and zeros_per_block of the sparsifier's defaults
DefaultBlockShape == <<1, 4>>
DefaultZerosPerBlock == 4

\* sparse_block_shape and zeros_per_block a config dictionary gives next to
\* its level: (4, 1) with 4, or (1, 8) with 8
DictBlockShape(x) == IF x = 4 THEN <<4, 1>> ELSE <<1, 8>>
DictZerosPerBlock(x) == IF x = 4 THEN 4 ELSE 8

\* A config entry: a bare module reference (no key but the module) or a
\* dictionary with its own sparsity_level, sparse_block_shape and
\* zeros_per_block
NoKey == 0 - 1
NoShape == <<>>
BareEntry(l) ==
    [module |-> l, sparsity_level |-> NoKey, sparse_block_shape |-> NoShape,
     zeros_per_block |-> NoKey]
DictEntry(l, x) ==
    [module |-> l, sparsity_level |-> x,
     sparse_block_shape |-> DictBlockShape(x),
     zeros_per_block |-> DictZerosPerBlock(x)]

EntryChoices(l) ==
    {<<>>, <<BareEntry(l)>>} \cup {<<DictEntry(l, x)>> : x \in DictLevels}

\* The configs the notebooks pass: None, or a list over the model's layers
ListConfigs ==
    {a \o b : a \in EntryChoices(LayerSeq[1]), b \in EntryChoices(LayerSeq[2])}

ConfigChoices ==
    {[is_none |-> TRUE, list |-> <<>>]} \cup
    {[is_none |-> FALSE, list |-> c] : c \in ListConfigs}

\* config=None: every supported (linear) layer of the model, by reference
AllLayersConfig == [i \in 1..Len(LayerSeq) |-> BareEntry(LayerSeq[i])]

\* local_args without the defaults: a missing level is 0
LocalArgsNoDefaults(entry) ==
    [module |-> entry.module,
     sparsity_level |-> IF entry.sparsity_level # NoKey
                        THEN entry.sparsity_level ELSE 0,
     sparse_block_shape |-> IF entry.sparse_block_shape # NoShape
                            THEN entry.sparse_block_shape ELSE DefaultBlockShape,
     zeros_per_block |-> IF entry.zeros_per_block # NoKey
                         THEN entry.zeros_per_block ELSE DefaultZerosPerBlock]

\* local_args updated the wrong way round: the defaults overwrite the
\* block parameters of the entry
LocalArgsDefaultsWin(entry) ==
    [module |-> entry.module,
     sparsity_level |-> IF entry.sparsity_level # NoKey
                        THEN entry.sparsity_level ELSE defaults,
     sparse_block_shape |-> DefaultBlockShape,
     zeros_per_block |-> DefaultZerosPerBlock]

\* local_args = copy.deepcopy(self.defaults); local_args.update(module_config)
LocalArgs(entry) ==
    [module |-> entry.module,
     sparsity_level |-> IF entry.sparsity_level # NoKey
                        THEN entry.sparsity_level ELSE defaults,
     sparse_block_shape |-> IF entry.sparse_block_shape # NoShape
                            THEN entry.sparse_block_shape ELSE DefaultBlockShape,
     zeros_per_block |-> IF entry.zeros_per_block # NoKey
                         THEN entry.zeros_per_block ELSE DefaultZerosPerBlock]

MakeGroups(cfg) == [i \in 1..Len(cfg) |-> LocalArgs(cfg[i])]

\* a prepare that attaches an all-zeros mask
PreparedMaskZeros(l) == [i \in 1..Numel(l) |-> 0]

\* the mask a layer carries when prepare returns
PreparedMask(l) == Ones(Numel(l))

\* sparsifier.prepare(model, config)
Prepare(c) ==
    /\ phase = "created"
    /\ LET cfg == IF c.is_none THEN AllLayersConfig ELSE c.list
           groups == MakeGroups(cfg)
       IN  /\ config' = cfg
           /\ module_groups' = groups
           /\ mask' = [l \in Layers |->
                        IF \E g \in DOMAIN groups : groups[g].module = l
                        THEN PreparedMask(l) ELSE NoMask]
    /\ phase' = "prepared"
    /\ UNCHANGED <<original, defaults, sched, epoch_points, base_sl, last_epoch,
                   sched_steps, turn, nsteps, applied>>
    /\ UNCHANGED <<fwd_steps, seen>>
    /\ UNCHANGED quantvars

\* the turn after sparsifier.step(): the loop calls scheduler.step() next
TurnAfterStep == IF sched = "none" THEN "sparsifier" ELSE "scheduler"

\* a step() that computes a layer's mask the first time only
StepMasksStale(l) ==
    IF HasGroup(l) /\ nsteps = 0
    THEN UpdateMask(original[l], GroupOf(l).sparsity_level)
    ELSE {mask[l]}

\* the masks one step() can leave on a layer: update_mask's for a layer of
\* a group, the mask as it is for any other layer
StepMasks(l) ==
    IF HasGroup(l) THEN UpdateMask(original[l], GroupOf(l).sparsity_level)
    ELSE {mask[l]}

\* sparsifier.step(): update_mask(module, **config) for every group
SparsifierStep ==
    /\ phase = "prepared"
    /\ turn = "sparsifier"
    /\ nsteps < MaxEpoch
    /\ \E m1 \in StepMasks(LayerSeq[1]), m2 \in StepMasks(LayerSeq[2]) :
          mask' = [l \in Layers |-> IF l = LayerSeq[1] THEN m1 ELSE m2]
    /\ applied' = [l \in Layers |->
                     IF HasGroup(l) THEN GroupOf(l).sparsity_level ELSE applied[l]]
    /\ nsteps' = nsteps + 1
    /\ turn' = TurnAfterStep
    /\ UNCHANGED <<phase, original, defaults, config, module_groups, sched,
                   epoch_points, base_sl, last_epoch, sched_steps>>
    /\ UNCHANGED <<fwd_steps, seen>>
    /\ UNCHANGED quantvars

\* a squash that drops the mask without multiplying it in
SquashedWeightUnmasked(l) == original[l]

\* the weight a squashed layer is left with
SquashedWeight(l) == [i \in 1..Numel(l) |-> original[l][i] * mask[l][i]]

\* a squash that multiplies the mask in and leaves the parametrization on
SquashMaskKeepsMask ==
    /\ phase = "prepared"
    /\ turn = "sparsifier"
    /\ original' = [l \in Layers |->
                      IF HasMask(l) THEN SquashedWeight(l) ELSE original[l]]
    /\ phase' = "squashed"
    /\ UNCHANGED <<mask, defaults, config, module_groups, sched, epoch_points,
                   base_sl, last_epoch, sched_steps, turn, nsteps, applied>>
    /\ UNCHANGED <<fwd_steps, seen>>
    /\ UNCHANGED quantvars

\* sparsifier.squash_mask(): remove_parametrizations(leave_parametrized=True)
SquashMask ==
    /\ phase = "prepared"
    /\ turn = "sparsifier"
    /\ original' = [l \in Layers |->
                      IF HasMask(l) THEN SquashedWeight(l) ELSE original[l]]
    /\ mask' = [l \in Layers |-> NoMask]
    /\ phase' = "squashed"
    /\ UNCHANGED <<defaults, config, module_groups, sched, epoch_points, base_sl,
                   last_epoch, sched_steps, turn, nsteps, applied>>
    /\ UNCHANGED <<fwd_steps, seen>>
    /\ UNCHANGED quantvars

\* a forward pass that reads the parameter and not the masked weight
ForwardSeenUnmasked(l) == ZeroCount(original[l])

\* y_hat = model(x): the zeros of the weight the layer multiplies by
ForwardSeen(l) == ZeroCount(Weight(l))

\* the body of a training iteration up to optimizer.step(): the forward pass
\* with the current weights, the backward pass, and the optimizer writing
\* the trained parameters
OptimizerStep ==
    /\ phase = "prepared"
    /\ turn = "sparsifier"
    /\ nsteps < MaxEpoch
    /\ fwd_steps # nsteps
    /\ seen' = [l \in Layers |-> ForwardSeen(l)]
    /\ fwd_steps' = nsteps
    /\ \E w \in WeightChoices : w # original /\ original' = w
    /\ UNCHANGED <<phase, mask, defaults, config, module_groups, sched,
                   epoch_points, base_sl, last_epoch, sched_steps, turn, nsteps,
                   applied>>
    /\ UNCHANGED quantvars

-----------------------------------------------------------------------------
(* Schedulers *)

\* stepping_lambda with the list indexed one too far
SteppingLambdaOffByOne(epoch) ==
    LET steps == <<0, 2, 3, 4>>
    IN  IF epoch + 1 >= Len(steps) THEN 4 ELSE steps[epoch + 2]

\* stepping_lambda(epoch), in units of 1/LambdaDen (a negative epoch indexes
\* the list from its end)
SteppingLambda(epoch) ==
    LET steps == <<0, 2, 3, 4>>
    IN  IF epoch >= Len(steps) THEN 4
        ELSE IF epoch >= 0 THEN steps[epoch + 1]
        ELSE steps[Len(steps) + epoch + 1]

\* LambdaSL.get_sl: base_sl * lmbda(self.last_epoch)
LambdaGetSl(base, epoch) ==
    [i \in DOMAIN base |-> (base[i] * SteppingLambda(epoch)) \div LambdaDen]

\* get_sl with the strict comparisons of the notebook's formula
OnOffGetSlStrict(base, epoch, points) ==
    IF epoch < points[1] THEN [i \in DOMAIN base |-> 0]
    ELSE IF points[1] < epoch /\ epoch < points[2] THEN base
    ELSE IF points[2] < epoch /\ epoch < points[3] THEN [i \in DOMAIN base |-> 0]
    ELSE base

\* OnOffSchedulerSL.get_sl
OnOffGetSl(base, epoch, points) ==
    IF epoch < points[1] THEN [i \in DOMAIN base |-> 0]
    ELSE IF points[1] <= epoch /\ epoch < points[2] THEN base
    ELSE IF points[2] <= epoch /\ epoch < points[3] THEN [i \in DOMAIN base |-> 0]
    ELSE base

GetSl(kind, base, epoch, points) ==
    IF kind = "lambda" THEN LambdaGetSl(base, epoch)
    ELSE OnOffGetSl(base, epoch, points)

\* param_group['sparsity_level'] = sl for every group
WithLevels(groups, values) ==
    [i \in DOMAIN groups |-> [groups[i] EXCEPT !.sparsity_level = values[i]]]

\* a step that advances the epoch by two
NextEpochSkips(epoch) == epoch + 2

\* last_epoch after one scheduler.step()
NextEpoch(epoch) == epoch + 1

\* a constructor that does not call step()
InitialEpochNoStep == 0 - 1

\* last_epoch when the scheduler's constructor returns: it starts at -1 and
\* the constructor calls step() once
InitialEpoch == NextEpoch(-1)

\* scheduler = LambdaSL(sparsifier, stepping_lambda) or
\* OnOffSchedulerSL(sparsifier, epoch_points), right after prepare
AttachScheduler(kind, points) ==
    /\ phase = "prepared"
    /\ sched = "none"
    /\ nsteps = 0
    /\ LET base == [i \in DOMAIN module_groups |-> module_groups[i].sparsity_level]
       IN  /\ base_sl' = base
           /\ module_groups' =
                 WithLevels(module_groups, GetSl(kind, base, InitialEpoch, points))
    /\ sched' = kind
    /\ epoch_points' = points
    /\ last_epoch' = InitialEpoch
    /\ sched_steps' = 1
    /\ UNCHANGED <<phase, original, mask, defaults, config, turn, nsteps, applied>>
    /\ UNCHANGED <<fwd_steps, seen>>
    /\ UNCHANGED quantvars

\* scheduler.step()
SchedulerStep ==
    /\ phase = "prepared"
    /\ sched # "none"
    /\ turn = "scheduler"
    /\ last_epoch' = NextEpoch(last_epoch)
    /\ sched_steps' = sched_steps + 1
    /\ module_groups' =
          WithLevels(module_groups,
                     GetSl(sched, base_sl, NextEpoch(last_epoch), epoch_points))
    /\ turn' = "sparsifier"
    /\ UNCHANGED <<phase, original, mask, defaults, config, sched, epoch_points,
                   base_sl, nsteps, applied>>
    /\ UNCHANGED <<fwd_steps, seen>>
    /\ UNCHANGED quantvars

-----------------------------------------------------------------------------

\* the sparsifier and the model's weights after construction
SparsifierInit ==
    /\ phase = "created"
    /\ original \in WeightChoices
    /\ mask = [l \in Layers |-> NoMask]
    /\ defaults \in DefaultLevels
    /\ config = <<>>
    /\ module_groups = <<>>
    /\ sched = "none"
    /\ epoch_points = <<>>
    /\ base_sl = <<>>
    /\ last_epoch = -1
    /\ sched_steps = 0
    /\ turn = "sparsifier"
    /\ nsteps = 0
    /\ applied = [l \in Layers |-> -1]
    /\ fwd_steps = -1
    /\ seen = [l \in Layers |-> -1]

ModelNames == {"model", "model_fp", "model_qsp"}
NoModel == <<>>

Init ==
    /\ SparsifierInit
    /\ flow = "none"
    /\ heap = <<>>
    /\ nets = [n \in ModelNames |-> NoModel]
    /\ held = <<>>
    /\ qconfig = {}
    /\ calls = <<>>

Next ==
    \/ \E c \in ConfigChoices : Prepare(c)
    \/ AttachScheduler("lambda", <<>>)
    \/ \E p \in EpochPointChoices : AttachScheduler("onoff", p)
    \/ OptimizerStep
    \/ SparsifierStep
    \/ SchedulerStep
    \/ SquashMask

Spec == Init /\ [][Next]_vars

-----------------------------------------------------------------------------
(* Quantization of the sparse model: post-training (tq.prepare, tq.convert  *)
(* on a deep copy) and quantization-aware (tq.prepare_qat, training,        *)
(* tq.convert on the model itself).  A model is the list of the ids of its  *)
(* linear layers; a layer object lives in the heap under its id.            *)

Slots == 1..Len(LayerSeq)

\* nn.Linear as make_model builds it
LinearObject(w) ==
    [kind |-> "Linear", weight |-> w, mask |-> NoMask, observer |-> FALSE]

\* layer.weight of an object: the parameter times the mask while parametrized
EffectiveWeight(o) ==
    IF o.mask = NoMask THEN o.weight
    ELSE [i \in 1..Len(o.weight) |-> o.weight[i] * o.mask[i]]

\* the layer objects of a model, in order
Contents(name) == [i \in DOMAIN nets[name] |-> heap[nets[name][i]]]

Called(op) == \E i \in DOMAIN calls : calls[i].op = op
CallIdx(op) == CHOOSE i \in DOMAIN calls : calls[i].op = op
Call(op, name) == calls' = Append(calls, [op |-> op, on |-> name])

\* the id of the new object that takes the place of slot i, when the slots
\* in R are replaced
FreshId(R, i) == Len(heap) + Cardinality({j \in R : j <= i})

\* swap the layers of the model in the slots R for the new objects made[i]
ReplaceLayers(name, R, made) ==
    /\ heap' = [k \in 1..(Len(heap) + Cardinality(R)) |->
                  IF k <= Len(heap) THEN heap[k]
                  ELSE made[CHOOSE i \in R : FreshId(R, i) = k]]
    /\ nets' = [nets EXCEPT ![name] =
                  [i \in DOMAIN @ |-> IF i \in R THEN FreshId(R, i) ELSE @[i]]]

\* the module a prepared layer is swapped for
QatObject(o) ==
    [kind |-> "QATLinear", weight |-> EffectiveWeight(o), mask |-> NoMask,
     observer |-> TRUE]

\* tq.prepare_qat(model, inplace=True): without a qconfig nothing is
\* replaced; with one, the plain linear layers are replaced and a
\* parametrized layer may or may not be
PrepareQat ==
    /\ flow = "qat"
    /\ ~Called("prepare_qat")
    /\ ~Called("step")
    /\ \E R \in SUBSET Slots :
          /\ "model" \notin qconfig => R = {}
          /\ "model" \in qconfig =>
                \A i \in Slots : heap[nets["model"][i]].mask = NoMask => i \in R
          /\ ReplaceLayers("model", R,
                           [i \in R |-> QatObject(heap[nets["model"][i]])])
    /\ Call("prepare_qat", "model")
    /\ UNCHANGED <<flow, held, qconfig>>
    /\ UNCHANGED <<phase, original, mask, defaults, config, module_groups, sched,
                   epoch_points, base_sl, last_epoch, sched_steps, turn, nsteps,
                   applied, fwd_steps, seen>>

\* a config entry that names the layer at the mirrored position
ConfigModuleMirrored(slot) == nets["model"][Len(nets["model"]) + 1 - slot]

\* model[i] in sparse_config: the layer object in the model when the config
\* is written
ConfigModule(slot) == nets["model"][slot]

\* the increasing sequence of the slots in S
RECURSIVE SlotSeq(_)
SlotSeq(S) ==
    IF S = {} THEN <<>>
    ELSE LET m == CHOOSE x \in S : \A y \in S : x <= y
         IN  <<m>> \o SlotSeq(S \ {m})

\* sparsifier.prepare(model, config=sparse_config) with sparse_config listing
\* the layers in the slots S: the groups hold the listed objects, and a mask
\* of ones is attached to each of them
PrepareModel(S) ==
    /\ flow # "none"
    /\ ~Called("prepare")
    /\ ~Called("convert")
    /\ LET refs == [i \in 1..Cardinality(S) |->
                      [slot |-> SlotSeq(S)[i], id |-> ConfigModule(SlotSeq(S)[i])]]
       IN  /\ held' = refs
           /\ heap' = [k \in DOMAIN heap |->
                         IF \E i \in DOMAIN refs : refs[i].id = k
                         THEN [heap[k] EXCEPT !.mask = Ones(Len(heap[k].weight))]
                         ELSE heap[k]]
    /\ Call("prepare", "model")
    /\ UNCHANGED <<flow, nets, qconfig>>
    /\ UNCHANGED <<phase, original, mask, defaults, config, module_groups, sched,
                   epoch_points, base_sl, last_epoch, sched_steps, turn, nsteps,
                   applied, fwd_steps, seen>>

HeldIds == {held[i].id : i \in DOMAIN held}

\* sparsifier.step() on the layers the groups hold, at the default level
StepModel ==
    /\ Called("prepare")
    /\ ~Called("step")
    /\ ~Called("squash_mask")
    /\ \E f \in [HeldIds -> UNION {UpdateMask(heap[k].weight, defaults) : k \in HeldIds}] :
          /\ \A k \in HeldIds : f[k] \in UpdateMask(heap[k].weight, defaults)
          /\ heap' = [k \in DOMAIN heap |->
                        IF k \in HeldIds THEN [heap[k] EXCEPT !.mask = f[k]]
                        ELSE heap[k]]
    /\ Call("step", "model")
    /\ UNCHANGED <<flow, nets, held, qconfig>>
    /\ UNCHANGED <<phase, original, mask, defaults, config, module_groups, sched,
                   epoch_points, base_sl, last_epoch, sched_steps, turn, nsteps,
                   applied, fwd_steps, seen>>

\* sparsifier.squash_mask() on the layers the groups hold
SquashModel ==
    /\ Called("step")
    /\ ~Called("squash_mask")
    /\ heap' = [k \in DOMAIN heap |->
                  IF k \in HeldIds
                  THEN [heap[k] EXCEPT !.weight = EffectiveWeight(heap[k]),
                                       !.mask = NoMask]
                  ELSE heap[k]]
    /\ Call("squash_mask", "model")
    /\ UNCHANGED <<flow, nets, held, qconfig>>
    /\ UNCHANGED <<phase, original, mask, defaults, config, module_groups, sched,
                   epoch_points, base_sl, last_epoch, sched_steps, turn, nsteps,
                   applied, fwd_steps, seen>>

\* a copy that shares the layer objects of its source
CopiedIdsShared(src) == nets[src]

\* the ids of the objects copy.deepcopy makes, one new object per layer
CopiedIds(src) == [i \in DOMAIN nets[src] |-> Len(heap) + i]

\* model_fp = copy.deepcopy(model), model_qsp = copy.deepcopy(model); the
\* copy for quantization is taken from the squashed model
DeepCopy(dst) ==
    /\ flow # "none"
    /\ nets[dst] = NoModel
    /\ ~Called("convert")
    /\ dst = "model_qsp" => (flow = "ptq" /\ Called("squash_mask"))
    /\ heap' = heap \o Contents("model")
    /\ nets' = [nets EXCEPT ![dst] = CopiedIds("model")]
    /\ Call("deepcopy", dst)
    /\ UNCHANGED <<flow, held, qconfig>>
    /\ UNCHANGED <<phase, original, mask, defaults, config, module_groups, sched,
                   epoch_points, base_sl, last_epoch, sched_steps, turn, nsteps,
                   applied, fwd_steps, seen>>

\* model_qsp.qconfig = tq.get_default_qconfig(); tq.prepare(model_qsp,
\* inplace=True) and the calibration run: every linear layer of the model
\* gets an observer
TqPrepare ==
    /\ flow = "ptq"
    /\ nets["model_qsp"] # NoModel
    /\ ~Called("tq_prepare")
    /\ qconfig' = qconfig \cup {"model_qsp"}
    /\ heap' = [k \in DOMAIN heap |->
                  IF \E i \in DOMAIN nets["model_qsp"] : nets["model_qsp"][i] = k
                  THEN [heap[k] EXCEPT !.observer = TRUE]
                  ELSE heap[k]]
    /\ Call("tq_prepare", "model_qsp")
    /\ UNCHANGED <<flow, nets, held>>
    /\ UNCHANGED <<phase, original, mask, defaults, config, module_groups, sched,
                   epoch_points, base_sl, last_epoch, sched_steps, turn, nsteps,
                   applied, fwd_steps, seen>>

\* the default static mapping, without the entry for nn.Linear
ConvertedKindDefault(kind) == "QuantizedLinear"

\* sparse_mapping: the default static mapping with nn.Linear mapped to the
\* sparse quantized Linear
ConvertedKind(kind) ==
    IF kind = "Linear" THEN "SparseQuantizedLinear" ELSE "QuantizedLinear"

ConvertedObject(o) ==
    [kind |-> ConvertedKind(o.kind), weight |-> EffectiveWeight(o),
     mask |-> NoMask, observer |-> FALSE]

\* tq.convert(name, inplace=True, mapping=sparse_mapping): every layer that
\* was prepared for quantization is swapped for its quantized module
Convert(name) ==
    /\ ~Called("convert")
    /\ name = "model_qsp" => (flow = "ptq" /\ Called("tq_prepare"))
    /\ name = "model" =>
          (flow = "qat" /\ Called("prepare_qat") /\ Called("squash_mask"))
    /\ LET R == {i \in Slots : heap[nets[name][i]].observer}
       IN  ReplaceLayers(name, R,
                         [i \in R |-> ConvertedObject(heap[nets[name][i]])])
    /\ Call("convert", name)
    /\ UNCHANGED <<flow, held, qconfig>>
    /\ UNCHANGED <<phase, original, mask, defaults, config, module_groups, sched,
                   epoch_points, base_sl, last_epoch, sched_steps, turn, nsteps,
                   applied, fwd_steps, seen>>

\* model = make_model(): the notebook run starts with the model alone; the
\* post-training notebook sets a qconfig only on the copy, the
\* quantization-aware one runs with or without a qconfig on the model
QuantInit ==
    /\ SparsifierInit
    /\ flow \in {"ptq", "qat"}
    /\ heap = [i \in Slots |-> LinearObject(original[LayerSeq[i]])]
    /\ nets = [n \in ModelNames |->
                 IF n = "model" THEN [i \in Slots |-> i] ELSE NoModel]
    /\ held = <<>>
    /\ qconfig \in (IF flow = "qat" THEN {{}, {"model"}} ELSE {{}})
    /\ calls = <<>>

QuantNext ==
    \/ PrepareQat
    \/ \E S \in SUBSET Slots \ {{}} : PrepareModel(S)
    \/ StepModel
    \/ SquashModel
    \/ DeepCopy("model_fp")
    \/ DeepCopy("model_qsp")
    \/ TqPrepare
    \/ Convert("model_qsp")
    \/ Convert("model")

QuantSpec == QuantInit /\ [][QuantNext]_vars

-----------------------------------------------------------------------------
(* Properties *)

\* the layers of the config the sparsifier holds, and their entries
Configured(l) == \E i \in DOMAIN config : config[i].module = l
EntryOf(l) == config[CHOOSE i \in DOMAIN config : config[i].module = l]

\* the level the config gives a layer: its own, or the sparsifier's default
ConfiguredTarget(l) ==
    IF EntryOf(l).sparsity_level # NoKey THEN EntryOf(l).sparsity_level
    ELSE defaults

\* a level is the exact fraction of zeros among n entries
IsFraction(zeros, n, level) == zeros * LevelDen = level * n

\* zeros is level * n rounded to the nearest integer
IsRounded(zeros, n, level) ==
    /\ 2 * (zeros * LevelDen - level * n) <= LevelDen
    /\ 2 * (level * n - zeros * LevelDen) <= LevelDen

\* C1 (as stated): after squash_mask(), the fraction of zero entries of every
\* sparsified layer's weight equals the sparsity level most recently applied
\* to the layer's group.
C1_ZeroFractionEqualsLevel ==
    phase = "squashed" =>
        \A l \in Layers :
            (HasGroup(l) /\ applied[l] >= 0) =>
                IsFraction(ZeroCount(original[l]), Numel(l), applied[l])

\* C1 (amended): after squash_mask(), the number of zero entries of every
\* sparsified layer's weight is int(round(level * N)) for the level most
\* recently applied to its group, so the fraction of zeros is the level
\* rounded to a multiple of 1/N; a layer that was never stepped has no zeros.
C1_ZeroCountIsRoundedLevel ==
    phase = "squashed" =>
        \A l \in Layers :
            HasGroup(l) =>
                IF applied[l] >= 0
                THEN /\ ZeroCount(original[l]) = ThresholdIdx(applied[l], Numel(l))
                     /\ IsRounded(ZeroCount(original[l]), Numel(l), applied[l])
                ELSE ZeroCount(original[l]) = 0

\* a squashed layer whose last level is not a multiple of 1/N
C1_Witness ==
    /\ phase = "squashed"
    /\ \E l \in Layers :
          /\ HasGroup(l)
          /\ applied[l] > 0
          /\ (applied[l] * Numel(l)) % LevelDen # 0
          /\ ZeroCount(original[l]) > 0

\* C2: after prepare() and before the first sparsifier.step(), every
\* sparsified layer has a mask, the mask is all ones, and the layer's
\* effective weight equals its original weight.
C2_MaskAllOnesBeforeStep ==
    (phase = "prepared" /\ nsteps = 0) =>
        \A l \in Layers :
            Configured(l) =>
                /\ HasMask(l)
                /\ DOMAIN mask[l] = 1..Numel(l)
                /\ \A i \in 1..Numel(l) : mask[l][i] = 1
                /\ Weight(l) = original[l]
                /\ ZeroCount(Weight(l)) = 0

\* prepared with a scheduler attached and trained weights, no step yet
C2_Witness ==
    /\ phase = "prepared"
    /\ nsteps = 0
    /\ sched # "none"
    /\ \A l \in Layers : Configured(l) /\ HasMask(l)

\* C3: a configured layer carries a mask exactly from prepare() until
\* squash_mask(); every step() leaves it a mask computed at the group's
\* level; squash_mask() removes the mask and leaves the weight equal to the
\* pre-squash original weight times the last mask, elementwise.
C3_MaskLifecycle ==
    /\ [](\A l \in Layers : HasMask(l) <=> (phase = "prepared" /\ Configured(l)))
    /\ [][nsteps' = nsteps + 1 =>
            \A l \in Layers :
                Configured(l) =>
                    /\ HasMask(l)'
                    /\ DOMAIN mask'[l] = 1..Numel(l)
                    /\ \A i \in 1..Numel(l) : mask'[l][i] \in {0, 1}
                    /\ IsRounded(ZeroCount(mask'[l]), Numel(l),
                                 GroupOf(l).sparsity_level)]_vars
    /\ [][(phase = "prepared" /\ phase' = "squashed") =>
            \A l \in Layers :
                Configured(l) =>
                    /\ mask'[l] = NoMask
                    /\ \A i \in 1..Numel(l) :
                          original'[l][i] = original[l][i] * mask[l][i]]_vars

\* a layer squashed with a mask that has zeros
C3_Witness ==
    /\ phase = "squashed"
    /\ \E l \in Layers :
          Configured(l) /\ ~HasMask(l) /\ ZeroCount(original[l]) > 0

\* C4: after a step, every element whose mask entry is 0 is at least as far
\* from the mean of the weight as every element whose mask entry is 1.
C4_ZeroesFurthestFromMean ==
    [][nsteps' = nsteps + 1 =>
        \A l \in Layers :
            HasGroup(l) =>
                \A i, j \in 1..Numel(l) :
                    (mask'[l][i] = 0 /\ mask'[l][j] = 1) =>
                        DistanceToMean(original[l])[i] >=
                        DistanceToMean(original[l])[j]]_vars

\* the level the notebook's formula gives at an epoch: 0 before e0, the
\* target strictly between e0 and e1, 0 strictly between e1 and e2, and the
\* target in every other case
FormulaLevel(target, epoch, points) ==
    IF epoch < points[1] THEN 0
    ELSE IF points[1] < epoch /\ epoch < points[2] THEN target
    ELSE IF points[2] < epoch /\ epoch < points[3] THEN 0
    ELSE target

\* C5: at every epoch OnOffSchedulerSL sets the current sparsity to 0 if
\* epoch < e0, to the target if e0 < epoch < e1, to 0 if e1 < epoch < e2, and
\* to the target in every other case, epoch = e0, e1 or e2 included.
C5_OnOffFollowsFormula ==
    sched = "onoff" =>
        \A g \in DOMAIN module_groups :
            module_groups[g].sparsity_level =
                FormulaLevel(base_sl[g], last_epoch, epoch_points)

\* the level iteration i of the loop is expected to show: off before e0, on
\* from e0, off from e1, on from e2
LoopLevel(target, i, points) ==
    IF i < points[1] THEN 0
    ELSE IF i < points[2] THEN target
    ELSE IF i < points[3] THEN 0
    ELSE target

TextFactor(epoch) ==
    CASE epoch = 0 -> 0
      [] epoch = 1 -> 2
      [] epoch = 2 -> 3
      [] OTHER -> 4

\* C7: stepping_lambda scales the target by 0 at epoch 0, 0.5 at epoch 1,
\* 0.75 at epoch 2 and 1.0 at every epoch >= 3, and with LambdaSL the level
\* of every group at epoch k is its configured target times
\* stepping_lambda(k).
C7_SteppingLambdaLevels ==
    sched = "lambda" =>
        /\ SteppingLambda(last_epoch) = TextFactor(last_epoch)
        /\ \A l \in Layers :
              Configured(l) =>
                  GroupOf(l).sparsity_level * LambdaDen =
                      ConfiguredTarget(l) * TextFactor(last_epoch)

\* a LambdaSL run at epoch 2, a target of 0.75 scaled by 0.75
C7_Witness ==
    /\ sched = "lambda"
    /\ last_epoch = 2
    /\ \E l \in Layers : Configured(l) /\ GroupOf(l).sparsity_level = 9

\* C8: in the loop with LambdaSL(sparsifier, stepping_lambda), the level
\* successive sparsifier.step() calls apply to a group never decreases, is 0
\* at the first iteration and is the configured target from the fourth
\* iteration on.
C8_LambdaLevelsRampUp ==
    [][(sched = "lambda" /\ nsteps' = nsteps + 1) =>
        \A l \in Layers :
            Configured(l) =>
                /\ applied'[l] >= applied[l]
                /\ nsteps = 0 => applied'[l] = 0
                /\ nsteps >= 3 => applied'[l] = ConfiguredTarget(l)]_vars

\* the loop has run past its fourth iteration at the target level
C8_Witness ==
    /\ sched = "lambda"
    /\ nsteps >= 5
    /\ \A l \in Layers :
          Configured(l) /\ applied[l] = ConfiguredTarget(l) /\ applied[l] > 0

\* C9: the scheduler's step counter only increases, by exactly 1 per
\* scheduler.step(), and every group's current level is its configured
\* target times a factor in [0, 1], so between 0 and the target.
C9_ScheduleState ==
    /\ [](sched # "none" =>
            /\ last_epoch = sched_steps - 1
            /\ \A l \in Layers :
                  Configured(l) =>
                      /\ 0 <= GroupOf(l).sparsity_level
                      /\ GroupOf(l).sparsity_level <= ConfiguredTarget(l)
                      /\ \E f \in 0..LambdaDen :
                            GroupOf(l).sparsity_level * LambdaDen =
                                ConfiguredTarget(l) * f)
    /\ [][/\ last_epoch' >= last_epoch
          /\ sched_steps' # sched_steps =>
                (sched_steps' = sched_steps + 1 /\ last_epoch' = last_epoch + 1)
          /\ last_epoch' # last_epoch => sched_steps' = sched_steps + 1]_vars

\* a scheduled run that has stepped the scheduler and scaled a level down
C9_Witness ==
    /\ sched # "none"
    /\ last_epoch >= 3
    /\ \E l \in Layers :
          Configured(l) /\ GroupOf(l).sparsity_level < ConfiguredTarget(l)

\* C10 (as stated): after prepare() and step(), every linear layer of the
\* model that the config does not list is sparsified with the default
\* parameters.
C10_UnlistedLayersGetDefaults ==
    (phase = "prepared" /\ sched = "none" /\ nsteps >= 1) =>
        \A l \in Layers :
            ~Configured(l) =>
                /\ HasMask(l)
                /\ applied[l] = defaults
                /\ ZeroCount(Weight(l)) = ThresholdIdx(defaults, Numel(l))

\* C10 (amended): after prepare() and step(), every layer the config lists
\* without a level of its own (a bare module reference; with config=None,
\* every linear layer) is sparsified with the default level, and a linear
\* layer the config does not list is not sparsified: it has no group and no
\* mask, and its weight is unchanged.
C10_DefaultsForBareEntries ==
    (phase = "prepared" /\ sched = "none" /\ nsteps >= 1) =>
        \A l \in Layers :
            /\ (Configured(l) /\ EntryOf(l).sparsity_level = NoKey) =>
                  /\ HasMask(l)
                  /\ applied[l] = defaults
                  /\ IsRounded(ZeroCount(Weight(l)), Numel(l), defaults)
            /\ ~Configured(l) =>
                  /\ ~HasGroup(l)
                  /\ ~HasMask(l)
                  /\ applied[l] = 0 - 1
                  /\ Weight(l) = original[l]
                  /\ ZeroCount(Weight(l)) = 0

\* a stepped model with one bare entry and one layer left out of the config
C10_Witness ==
    /\ phase = "prepared"
    /\ sched = "none"
    /\ nsteps >= 1
    /\ \E l \in Layers :
          Configured(l) /\ EntryOf(l).sparsity_level = NoKey /\ ZeroCount(Weight(l)) > 0
    /\ \E l \in Layers : ~Configured(l)

\* the group of a layer holds the defaults for a bare reference, and the
\* dictionary's own values for a dictionary
GroupKeepsConfig(l) ==
    LET entry == EntryOf(l)
        group == GroupOf(l)
    IN  IF entry = BareEntry(l)
        THEN /\ group.sparsity_level = defaults
             /\ group.sparse_block_shape = DefaultBlockShape
             /\ group.zeros_per_block = DefaultZerosPerBlock
        ELSE /\ group.sparsity_level = entry.sparsity_level
             /\ group.sparse_block_shape = entry.sparse_block_shape
             /\ group.zeros_per_block = entry.zeros_per_block

IsPythonRound(zeros, n, level) ==
    /\ IsRounded(zeros, n, level)
    /\ 2 * Abs(zeros * LevelDen - level * n) = LevelDen => zeros % 2 = 0

\* C16: after any sequence of step() calls with a level in [0,1], the mask
\* has the weight's shape, every entry is 0 or 1, and exactly
\* int(round(sparsity_level * N)) entries are 0: all ones at level 0 and all
\* zeros at level 1.
C16_MaskShapeAndZeroCount ==
    (phase = "prepared" /\ nsteps >= 1) =>
        \A l \in Layers :
            HasGroup(l) =>
                /\ applied[l] \in 0..LevelDen
                /\ DOMAIN mask[l] = DOMAIN original[l]
                /\ \A i \in DOMAIN mask[l] : mask[l][i] \in {0, 1}
                /\ IsPythonRound(ZeroCount(mask[l]), Numel(l), applied[l])
                /\ applied[l] = 0 => mask[l] = Ones(Numel(l))
                /\ applied[l] = LevelDen =>
                      \A i \in DOMAIN mask[l] : mask[l][i] = 0

\* several steps in, one layer at level 1 and one whose level times N is not
\* an integer
C16_Witness ==
    /\ phase = "prepared"
    /\ nsteps >= 2
    /\ \E l \in Layers :
          HasGroup(l) /\ applied[l] = LevelDen /\ ZeroCount(mask[l]) = Numel(l)
    /\ \E l \in Layers :
          /\ HasGroup(l)
          /\ (applied[l] * Numel(l)) % LevelDen # 0
          /\ ZeroCount(mask[l]) > 0

\* prepare_qat ran, and only after sparsifier.prepare
QatAfterPrepare ==
    /\ Called("prepare_qat")
    /\ Called("prepare")
    /\ CallIdx("prepare") < CallIdx("prepare_qat")

ModelIds == {nets["model"][i] : i \in DOMAIN nets["model"]}

C15_AllLinearsSparseQuantized ==
    (flow = "ptq" /\ Called("convert")) =>
        /\ DOMAIN nets["model_qsp"] = Slots
        /\ \A i \in Slots :
              /\ heap[nets["model_qsp"][i]].kind = "SparseQuantizedLinear"
              /\ heap[nets["model_qsp"][i]].mask = NoMask

\* a converted copy with one layer that was sparsified and one that was not
C15_Witness ==
    /\ flow = "ptq"
    /\ Called("convert")
    /\ \E i \in Slots :
          /\ \A j \in DOMAIN held : held[j].slot # i
          /\ ZeroCount(heap[nets["model_qsp"][i]].weight) = 0
    /\ \E i \in Slots :
          /\ \E j \in DOMAIN held : held[j].slot = i
          /\ ZeroCount(heap[nets["model_qsp"][i]].weight) > 0

\* C17: sparsifier.prepare() changes the layers of the model it is given and
\* keeps them the same objects, and every call leaves every model other than
\* the one it was given as it was, layer for layer: work on a deep copy
\* (tq.prepare and tq.convert on model_qsp) changes neither the model it was
\* copied from nor another copy, and work on the model changes no copy.
C17_DeepCopyIsolates ==
    /\ [][calls' # calls =>
            \A n \in ModelNames \ {calls'[Len(calls')].on} :
                /\ nets'[n] = nets[n]
                /\ Contents(n)' = Contents(n)]_vars
    /\ [][(~Called("prepare") /\ Called("prepare")') =>
            /\ nets'["model"] = nets["model"]
            /\ Contents("model")' # Contents("model")]_vars

\* a copy taken before prepare() is still dense and plain, next to the sparse
\* model and the converted model_qsp
C17_Witness ==
    /\ flow = "ptq"
    /\ Called("convert")
    /\ nets["model_fp"] # NoModel
    /\ CallIdx("deepcopy") < CallIdx("prepare")
    /\ \A i \in Slots :
          /\ heap[nets["model_fp"][i]] = LinearObject(original[LayerSeq[i]])
          /\ heap[nets["model"][i]].kind = "Linear"
          /\ ~heap[nets["model"][i]].observer
          /\ heap[nets["model_qsp"][i]].kind = "SparseQuantizedLinear"
    /\ \E i \in Slots : ZeroCount(heap[nets["model"][i]].weight) > 0

=============================================================================
